---- MODULE Spec2Model ----
(***************************************************************************)
(* Model of the grading scale engine of graca (src/model/scale.rs) and of  *)
(* the intents that Model::update (src/model/mod.rs) applies to it.        *)
(*                                                                         *)
(* Numbers.  Percentages are f64 literals with two decimals; the model     *)
(* stores them in hundredths (0.92 is 92).  total_points and every         *)
(* threshold are f64 values that are always whole numbers (total_points    *)
(* comes from a u32 or from +-1.0, every threshold is written through      *)
(* f64::round), so they are stored as integers.  Values that may carry a   *)
(* half point (points + 0.5, a student's points) are stored in HALVES:     *)
(* twice the value.  Names of such quantities end in 2.                    *)
(***************************************************************************)
EXTENDS Integers, Sequences, FiniteSets, TLC

\* ------------------------------------------------------------------ bounds
\* IncrementMaxPoints and DecrementMaxPoints are explored while total_points
\* is in -MaxBelowZero..MaxTotal; larger totals are reached by SetMaxPoints
MaxTotal == 12
MaxBelowZero == 2
\* number of manual threshold edits explored between two recalculations
MaxEdits == 2
\* grade_for_points is queried up to QuerySlack half points around each threshold
QuerySlack == 2
\* largest roster whose point adjustments are explored, and its maximum points
MaxStudents == 2
StudentsTotal == 3
\* largest maximum points a scale is constructed with for the round trip
MaxFreshTotal == 120
\* most rows of a roster file
MaxRows == 2
\* most dot-separated parts of the file name of an export destination
MaxNameParts == 2
\* change is called MaxChanges times with an index in 0..MaxChangeIndex
MaxChanges == 2
MaxChangeIndex == 6
\* '+' and '-' keys pressed on the single-table app
MaxKeyEdits == 1
\* largest roster whose statistics are computed
MaxStatStudents == 4
MaxCommandLen == 4

\* --------------------------------------------------------------- grades
\* enum Grade, by to_number(): 1 = VeryGood ... 6 = Fail
Grade == 1..6

\* Grade::try_from(u8)
Grade_try_from(value) == IF value \in 1..6 THEN value ELSE 0

\* ---------------------------------------------------- scale definitions
IHK_BOUNDARIES ==
  << <<1, 92>>, <<2, 81>>, <<3, 67>>, <<4, 50>>, <<5, 30>>, <<6, 0>> >>

\* mutant: 0.07 typed for 0.7
TECHNIKER_BOUNDARIES_typo ==
  << <<1, 85>>, <<2, 7>>, <<3, 55>>, <<4, 40>>, <<5, 20>>, <<6, 0>> >>

TECHNIKER_BOUNDARIES ==
  << <<1, 85>>, <<2, 70>>, <<3, 55>>, <<4, 40>>, <<5, 20>>, <<6, 0>> >>

LINEAR_BOUNDARIES ==
  << <<1, 87>>, <<2, 60>>, <<3, 47>>, <<4, 30>>, <<5, 17>>, <<6, 0>> >>

\* the unit variants of GradeScaleType
StandardKinds == {"IHK", "TECHNIKER", "LINEAR"}

\* a GradeScaleType value: a unit variant, or Custom(values)
Standard(kind) == [kind |-> kind, values |-> << >>]
Custom(values) == [kind |-> "Custom", values |-> values]

\* GradeScaleType::values
values(scale_type) ==
  CASE scale_type.kind = "IHK" -> IHK_BOUNDARIES
    [] scale_type.kind = "TECHNIKER" -> TECHNIKER_BOUNDARIES
    [] scale_type.kind = "LINEAR" -> LINEAR_BOUNDARIES
    [] OTHER -> scale_type.values

\* GradeScaleType::is_custom
is_custom(scale_type) == scale_type.kind = "Custom"

\* mutant: the Custom copy starts from the LINEAR table
to_custom_linear(scale_type) ==
  IF is_custom(scale_type) THEN scale_type ELSE Custom(LINEAR_BOUNDARIES)

\* GradeScaleType::to_custom
to_custom(scale_type) == Custom(values(scale_type))

\* ------------------------------------------------------- f64 arithmetic
RECURSIVE Pow2(_)
Pow2(n) == IF n <= 0 THEN 1 ELSE 2 * Pow2(n - 1)

Abs(x) == IF x < 0 THEN -x ELSE x

\* f64::round of a value given in halves: to the nearest whole number,
\* half-way cases away from zero
round2(x2) ==
  IF x2 % 2 = 0 THEN x2 \div 2
  ELSE IF x2 > 0 THEN (x2 + 1) \div 2 ELSE (x2 - 1) \div 2

\* the f64 nearest to pct/100 is N / 2^(52 + j) with 2^-j <= pct/100 < 2^(1-j)
RECURSIVE BinadeOfPct(_, _)
BinadeOfPct(pct, j) == IF pct * Pow2(j) >= 100 THEN j ELSE BinadeOfPct(pct, j + 1)

RECURSIVE Pow2Mod100(_)
Pow2Mod100(n) == IF n <= 0 THEN 1 ELSE (2 * Pow2Mod100(n - 1)) % 100

\* representation error of the f64 literal pct/100, in units of
\* 1 / (100 * 2^(52 + j)): 100 * N - pct * 2^(52 + j), N the nearest integer
ReprError(pct) ==
  LET t == (pct * Pow2Mod100(52 + BinadeOfPct(pct, 0))) % 100
  IN IF t < 50 THEN -t ELSE 100 - t

\* b with 2^b <= y2 / 2 < 2^(b+1), for a positive odd number of halves y2
RECURSIVE BinadeOfHalves(_, _)
BinadeOfHalves(y2, b) == IF Pow2(b + 2) > y2 THEN b ELSE BinadeOfHalves(y2, b + 1)

\* pct * max_points is mathematically q + 1/2; the f64 product is the double
\* nearest to (pct/100 + error) * a.  It falls below q + 1/2, so that round()
\* gives q instead of q + 1, when the error times a exceeds half the distance
\* from q + 1/2 to the double below it.
ProductBelowTie(pct, a, q) ==
  LET r == ReprError(pct)
      b == BinadeOfHalves(2 * q + 1, -1)
      ex == BinadeOfPct(pct, 0) - 1 + b - (IF 2 * q + 1 = Pow2(b + 1) THEN 1 ELSE 0)
  IN IF ex >= 0 THEN (-r) * a > 100 * Pow2(ex)
     ELSE (-r) * a * Pow2(-ex) > 100

\* mutant: the product is truncated instead of rounded
mul_round_trunc(pct, max_points) ==
  IF max_points >= 0 THEN (pct * max_points) \div 100
  ELSE -((pct * (-max_points)) \div 100)

\* (pct * max_points).round() of calculate_thresholds, in f64
mul_round(pct, max_points) ==
  IF pct = 0 \/ max_points = 0 THEN 0
  ELSE LET a == Abs(max_points)
           s == IF max_points > 0 THEN 1 ELSE -1
           q == (pct * a) \div 100
           rem == (pct * a) % 100
       IN IF rem # 50 THEN s * (IF rem > 50 THEN q + 1 ELSE q)
          ELSE s * (IF ProductBelowTie(pct, a, q) THEN q ELSE q + 1)

\* e with 2^e <= m / 200 < 2^(e+1), m a positive odd number
RECURSIVE BinadeOfQuotient(_, _)
BinadeOfQuotient(m, e) ==
  IF (IF e < 0 THEN m * Pow2(-e) >= 400 ELSE m >= 400 * Pow2(e)) THEN BinadeOfQuotient(m, e + 1)
  ELSE e

RECURSIVE Pow2Mod25(_)
Pow2Mod25(n) == IF n <= 0 THEN 1 ELSE (2 * Pow2Mod25(n - 1)) % 25

\* a / b * 100 is mathematically h + 1/2, so a / b = m / 200 with m = 2h + 1.
\* The f64 quotient is N / 2^(52 - e), N the integer nearest to
\* m * 2^(49 - e) / 25; when it was rounded down by t/25 of a unit, the product
\* with 100.0 is 4t units of the quotient below h + 1/2 and is rounded to a
\* double below h + 1/2 when that exceeds half a unit of the product.
QuotientBelowTie(h) ==
  LET m == 2 * h + 1
      e == BinadeOfQuotient(m, -20)
      b == BinadeOfHalves(m, -2)
      t == (m * Pow2Mod25(49 - e)) % 25
      k == b - e - 1 - (IF m = Pow2(b + 1) THEN 1 ELSE 0)
  IN /\ t # 0 /\ t < 13
     /\ IF k >= 0 THEN 4 * t > Pow2(k) ELSE 4 * t * Pow2(-k) > 1

\* ((n / d) * 100.0).round() for whole (or doubled) n and d # 0
RoundedHundredths(n, d) ==
  IF n = 0 THEN 0
  ELSE LET s == IF (n > 0) = (d > 0) THEN 1 ELSE -1
           a == Abs(n)
           b == Abs(d)
           h == (100 * a) \div b
           rem == (100 * a) % b
       IN IF 2 * rem # b THEN s * (IF 2 * rem > b THEN h + 1 ELSE h)
          ELSE s * (IF QuotientBelowTie(h) THEN h ELSE h + 1)

\* round_dp(n / d, 2) of scale.rs: the f64 of that many hundredths; n / 0.0 is
\* NaN for n = 0 and an infinity (inf = 1 or -1) otherwise, and round_dp
\* returns it as it is
round_dp(n, d) ==
  IF d = 0
  THEN [nan |-> n = 0, inf |-> IF n > 0 THEN 1 ELSE IF n < 0 THEN -1 ELSE 0,
        hundredths |-> 0]
  ELSE [nan |-> FALSE, inf |-> 0, hundredths |-> RoundedHundredths(n, d)]

\* mutant: the hundredths are truncated instead of rounded
percentage_for_points_trunc(points, total) ==
  IF total = 0 THEN round_dp(points, total)
  ELSE [nan |-> FALSE, inf |-> 0, hundredths |-> (100 * points) \div total]

\* GradingScale::percentage_for_points(points, total), in hundredths
percentage_for_points(points, total) == round_dp(points, total)

\* GradingScale::calculate_thresholds: the BTreeMap Grade -> points
calculate_thresholds(scale_type, max_points) ==
  [g \in Grade |->
     LET i == CHOOSE i \in 1..6 : Grade_try_from(values(scale_type)[i][1]) = g
     IN mul_round(values(scale_type)[i][2], max_points)]

\* ------------------------------------------------------------------ state
VARIABLES
  scale_type,       \* GradingScale.scale_type
  total_points,     \* GradingScale.total_points
  thresholds,       \* GradingScale.thresholds
  use_half_points,  \* GradingScale.use_half_points
  op,               \* the ModelAction (or constructor) applied last
  edits,            \* threshold edits since the last recalculation
  students,         \* Model.student_list.students: [name, points2] records
  calculator,       \* App.calculator (GradeCalculator) of the single-table app
  selected,         \* App.table.state.selected(): the row index, NoRow for None
  keys,             \* '+' and '-' keys handled so far
  state,            \* App.state (AppState), "Panicked" once a panic unwound
  point_edit_field  \* App.point_edit_field: [input, character_index]

vars == <<scale_type, total_points, thresholds, use_half_points, op, edits,
          students, calculator, selected, keys, state, point_edit_field>>

\* the fields of GradingScale, of the roster and of the single-table app
scaleVars == <<scale_type, total_points, thresholds, use_half_points, edits>>
rosterVars == <<students>>
appVars == <<calculator, selected, keys>>
editVars == <<state, point_edit_field>>

\* NumberInputField::new()
NumberInputField_new == [input |-> << >>, character_index |-> 0]

\* StudentList::default(): no students
NoStudents == << >>

\* GradeCalculator::default() and GradeTable::new(): 100 points, IHK, whole
\* steps, row 0 selected
AppNew ==
  /\ calculator = [total_points |-> 100, scale |-> [kind |-> "IHK", values |-> << >>],
                   half_steps |-> FALSE]
  /\ selected = 0
  /\ keys = 0
  /\ state = "Running"
  /\ point_edit_field = NumberInputField_new

\* GradingScale::from_type: Err(InvalidPoints) for max_points <= 0
from_type(st, max_points) ==
  IF max_points <= 0
  THEN [ok |-> FALSE]
  ELSE [ok |-> TRUE, scale_type |-> st, total_points |-> max_points,
        thresholds |-> calculate_thresholds(st, max_points),
        use_half_points |-> FALSE]

\* the u32 values given for the maximum points
SetPointsInputs == {0, 1, 45, 100}

\* the scale is built by from_type from the configured default scale and the
\* points given on the command line (Model::new: IHK, 100.0); a failed
\* construction leaves no scale
ScaleConstructed(kind, max_points) ==
  LET s == from_type(Standard(kind), max_points)
  IN /\ s.ok
     /\ scale_type = s.scale_type
     /\ total_points = s.total_points
     /\ thresholds = s.thresholds
     /\ use_half_points = s.use_half_points
     /\ op = [name |-> "from_type", arg |-> max_points]
     /\ edits = 0

Init ==
  /\ \E kind \in StandardKinds, max_points \in SetPointsInputs :
       ScaleConstructed(kind, max_points)
  /\ students = NoStudents
  /\ AppNew

\* GradingScale::recalculate, on the new scale type and total
recalculate(st, total) == calculate_thresholds(st, total)

\* mutant: points >= pts instead of points > pts
RECURSIVE find_grade_ge(_, _, _)
find_grade_ge(thr, points2, g) ==
  IF g > 6 THEN 0
  ELSE IF points2 >= 2 * thr[g] THEN g
  ELSE find_grade_ge(thr, points2, g + 1)

\* GradingScale::grade_for_points: the first grade, best to worst, whose
\* threshold the points exceed; 0 stands for None
RECURSIVE find_grade(_, _, _)
find_grade(thr, points2, g) ==
  IF g > 6 THEN 0
  ELSE IF points2 > 2 * thr[g] THEN g
  ELSE find_grade(thr, points2, g + 1)

\* mutant: the first grade whose threshold is above the points
grade_for_points_below(thr, points2) ==
  IF \E g \in 1..6 : points2 < 2 * thr[g]
  THEN CHOOSE g \in 1..6 :
         points2 < 2 * thr[g] /\ \A k \in 1..(g - 1) : points2 >= 2 * thr[k]
  ELSE 0

grade_for_points(thr, points2) == find_grade(thr, points2, 1)

\* mutant: the scale type is not promoted to Custom
update_points_for_grade_keep_type(st, thr, grade, new_points2) ==
  [scale_type |-> st,
   thresholds |-> [thr EXCEPT ![grade] = round2(new_points2)]]

\* GradingScale::update_points_for_grade: the new (scale_type, thresholds)
update_points_for_grade(st, thr, grade, new_points2) ==
  [scale_type |-> IF ~is_custom(st) THEN to_custom(st) ELSE st,
   thresholds |-> [thr EXCEPT ![grade] = round2(new_points2)]]

\* GradingScale::increment_points_for_grade
increment_points_for_grade(st, thr, half, grade) ==
  LET new_points2 == IF half THEN 2 * thr[grade] + 1 ELSE 2 * thr[grade] + 2
  IN update_points_for_grade(st, thr, grade, new_points2)

\* mutant: 2.0 subtracted instead of 1.0
decrement_points_for_grade_two(st, thr, half, grade) ==
  LET new_points2 == IF half THEN 2 * thr[grade] - 1 ELSE 2 * thr[grade] - 4
  IN update_points_for_grade(st, thr, grade, new_points2)

\* GradingScale::decrement_points_for_grade
decrement_points_for_grade(st, thr, half, grade) ==
  LET new_points2 == IF half THEN 2 * thr[grade] - 1 ELSE 2 * thr[grade] - 2
  IN update_points_for_grade(st, thr, grade, new_points2)

\* ---------------------------------------------------------------- actions
\* ModelAction::IncrementThreshold(grade); grade is a u8, 0 and 7 stand for
\* the values Grade::try_from rejects
IncrementThreshold(grade) ==
  /\ edits < MaxEdits
  /\ op' = [name |-> "IncrementThreshold", arg |-> grade]
  /\ IF Grade_try_from(grade) # 0
     THEN LET r == increment_points_for_grade(scale_type, thresholds,
                                              use_half_points, grade)
          IN /\ scale_type' = r.scale_type
             /\ thresholds' = r.thresholds
     ELSE UNCHANGED <<scale_type, thresholds>>
  /\ edits' = edits + 1
  /\ UNCHANGED <<total_points, use_half_points>>
  /\ UNCHANGED <<rosterVars, appVars, editVars>>

\* ModelAction::DecrementThreshold(grade)
DecrementThreshold(grade) ==
  /\ edits < MaxEdits
  /\ op' = [name |-> "DecrementThreshold", arg |-> grade]
  /\ IF Grade_try_from(grade) # 0
     THEN LET r == decrement_points_for_grade(scale_type, thresholds,
                                              use_half_points, grade)
          IN /\ scale_type' = r.scale_type
             /\ thresholds' = r.thresholds
     ELSE UNCHANGED <<scale_type, thresholds>>
  /\ edits' = edits + 1
  /\ UNCHANGED <<total_points, use_half_points>>
  /\ UNCHANGED <<rosterVars, appVars, editVars>>

\* GradingScale::set_total_points
set_total_points(total) ==
  /\ total_points' = total
  /\ thresholds' = recalculate(scale_type, total)
  /\ edits' = 0
  /\ UNCHANGED <<scale_type, use_half_points>>
  /\ UNCHANGED <<rosterVars, appVars, editVars>>

\* ModelAction::SetMaxPoints(points), points a u32
SetMaxPoints(points) ==
  /\ op' = [name |-> "SetMaxPoints", arg |-> points]
  /\ set_total_points(points)

\* ModelAction::IncrementMaxPoints
IncrementMaxPoints ==
  /\ total_points < MaxTotal
  /\ op' = [name |-> "IncrementMaxPoints", arg |-> 0]
  /\ set_total_points(total_points + 1)

\* ModelAction::DecrementMaxPoints
DecrementMaxPoints ==
  /\ total_points > -MaxBelowZero /\ total_points <= MaxTotal
  /\ op' = [name |-> "DecrementMaxPoints", arg |-> 0]
  /\ set_total_points(total_points - 1)

\* ModelAction::SetScale -> GradingScale::change_scale_type
SetScale(kind) ==
  /\ op' = [name |-> "SetScale", arg |-> kind]
  /\ scale_type' = Standard(kind)
  /\ thresholds' = recalculate(Standard(kind), total_points)
  /\ edits' = 0
  /\ UNCHANGED <<total_points, use_half_points>>
  /\ UNCHANGED <<rosterVars, appVars, editVars>>

\* ModelAction::ToggleHalfPoints -> GradingScale::toggle_half_points
ToggleHalfPoints ==
  /\ op' = [name |-> "ToggleHalfPoints", arg |-> 0]
  /\ use_half_points' = ~use_half_points
  /\ thresholds' = recalculate(scale_type, total_points)
  /\ edits' = 0
  /\ UNCHANGED <<scale_type, total_points>>
  /\ UNCHANGED <<rosterVars, appVars, editVars>>

Next ==
  \/ \E grade \in 0..7 : IncrementThreshold(grade)
  \/ \E grade \in 0..7 : DecrementThreshold(grade)
  \/ \E points \in SetPointsInputs : SetMaxPoints(points)
  \/ IncrementMaxPoints
  \/ DecrementMaxPoints
  \/ \E kind \in StandardKinds : SetScale(kind)
  \/ ToggleHalfPoints

Spec == Init /\ [][Next]_vars

\* ----------------------------------------------------------------- roster
\* the names of the students of a roster, by position, and a name no roster has
Names == <<"Alice", "Bob", "Cara", "Dave", "Eve", "Finn", "Gus">>
AbsentName == "Zoe"

\* the rosters of at most n students whose points (in halves) are in pts
Rosters(n, pts) ==
  UNION {{[i \in 1..k |-> [name |-> Names[i], points2 |-> f[i]]] : f \in [1..k -> pts]}
           : k \in 0..n}

\* StudentList::get_student_mut: the first student of that name, 0 for None
get_student_mut(list, name) ==
  IF \E i \in 1..Len(list) : list[i].name = name
  THEN CHOOSE i \in 1..Len(list) :
         /\ list[i].name = name
         /\ \A j \in 1..(i - 1) : list[j].name # name
  ELSE 0

\* mutant: the new value is stored without the test against max_points
increment_student_unchecked(list, name, half, max_points) ==
  LET i == get_student_mut(list, name)
      new_value2 == list[i].points2 + (IF half THEN 1 ELSE 2)
  IN IF i # 0
     THEN [list EXCEPT ![i].points2 = new_value2]
     ELSE list

\* Model::update, IncrementStudentPoints arm: the new student list
increment_student(list, name, half, max_points) ==
  LET i == get_student_mut(list, name)
      new_value2 == list[i].points2 + (IF half THEN 1 ELSE 2)
  IN IF i # 0 /\ new_value2 <= 2 * max_points
     THEN [list EXCEPT ![i].points2 = new_value2]
     ELSE list

\* Model::update, DecrementStudentPoints arm: the new student list
decrement_student(list, name, half, max_points) ==
  LET i == get_student_mut(list, name)
      new_value2 == list[i].points2 - (IF half THEN 1 ELSE 2)
  IN IF i # 0 /\ new_value2 <= 2 * max_points
     THEN [list EXCEPT ![i].points2 = new_value2]
     ELSE list

\* ModelAction::IncrementStudentPoints(name); op.arg is the name and whether
\* update_points was called
IncrementStudentPoints(name) ==
  /\ students' = increment_student(students, name, use_half_points, total_points)
  /\ op' = [name |-> "IncrementStudentPoints", arg |-> <<name, students' # students>>]
  /\ UNCHANGED <<scaleVars, appVars, editVars>>

\* ModelAction::DecrementStudentPoints(name); explored down to -MaxBelowZero
\* points
DecrementStudentPoints(name) ==
  /\ \A i \in 1..Len(students) : students[i].points2 > -2 * MaxBelowZero
  /\ students' = decrement_student(students, name, use_half_points, total_points)
  /\ op' = [name |-> "DecrementStudentPoints", arg |-> <<name, students' # students>>]
  /\ UNCHANGED <<scaleVars, appVars, editVars>>

\* ------------------------------------------------------- single-table app
\* TableState::selected() is None
NoRow == -1

\* mutant: the cursor stops at the last row
next_row_saturating(sel) ==
  IF sel = NoRow THEN 0 ELSE IF sel = 5 THEN 5 ELSE sel + 1

\* GradeTable::next_row: the row selected next
next_row(sel) ==
  IF sel = NoRow THEN 0 ELSE (sel + 1) % 6

\* GradeTable::previous_row: the row selected next
previous_row(sel) ==
  IF sel = NoRow THEN 0
  ELSE IF sel = 0 THEN 5 ELSE (sel - 1) % 6

\* value.clamp(0.0, 1.0) of a round_dp result, in hundredths (the quotients of
\* the key handler are never 0.0 / 0.0)
clamp01(v) ==
  IF v.inf = 1 THEN 100
  ELSE IF v.inf = -1 THEN 0
  ELSE IF v.hundredths < 0 THEN 0
  ELSE IF v.hundredths > 100 THEN 100
  ELSE v.hundredths

\* mutant: the value is stored without clamp
change_unclamped(scale, index, value) ==
  IF is_custom(scale) /\ index \in 0..5
  THEN Custom([values(scale) EXCEPT ![index + 1] = <<@[1], value.hundredths>>])
  ELSE scale

\* GradeScaleType::change(index, value): only a Custom scale and only an index
\* in 0..=5 is changed
change(scale, index, value) ==
  IF is_custom(scale) /\ index \in 0..5
  THEN Custom([values(scale) EXCEPT ![index + 1] = <<@[1], clamp01(value)>>])
  ELSE scale

\* GradeCalculator::min_for(grade): the f64, or NoRow for None
min_for(calc, grade) ==
  IF \E i \in 1..6 : values(calc.scale)[i][1] = grade
  THEN LET i == CHOOSE i \in 1..6 :
                  /\ values(calc.scale)[i][1] = grade
                  /\ \A j \in 1..(i - 1) : values(calc.scale)[j][1] # grade
       IN mul_round(values(calc.scale)[i][2], calc.total_points)
  ELSE NoRow

\* the calculator after '+' (delta = 1) or '-' (delta = -1) on row sel
adjust_selected(calc, sel, delta) ==
  IF is_custom(calc.scale) /\ sel # NoRow
       /\ \E i \in 1..6 : values(calc.scale)[i][1] = sel + 1
  THEN [calc EXCEPT !.scale =
          change(calc.scale, sel,
                 round_dp(min_for(calc, sel + 1) + delta, calc.total_points))]
  ELSE calc

\* the values set_points is called with
AppPointsInputs == {0, 10, 100}

\* App::set_points, from with_points or Enter in the point edit field
set_points(points) ==
  /\ calculator' = [calculator EXCEPT !.total_points = points]
  /\ op' = [name |-> "set_points", arg |-> points]
  /\ UNCHANGED <<selected, keys, scaleVars, rosterVars, editVars>>

\* keys 'I', 'T', 'L': App::change_scale
change_scale(kind) ==
  /\ calculator' = [calculator EXCEPT !.scale = Standard(kind)]
  /\ op' = [name |-> "change_scale", arg |-> kind]
  /\ UNCHANGED <<selected, keys, scaleVars, rosterVars, editVars>>

\* key 'C': change_scale(self.calculator.scale.to_custom())
KeyToCustom ==
  /\ calculator' = [calculator EXCEPT !.scale = to_custom(calculator.scale)]
  /\ op' = [name |-> "to_custom", arg |-> 0]
  /\ UNCHANGED <<selected, keys, scaleVars, rosterVars, editVars>>

\* key '.': GradeCalculator::toggle_steps
toggle_steps ==
  /\ calculator' = [calculator EXCEPT !.half_steps = ~@]
  /\ op' = [name |-> "toggle_steps", arg |-> 0]
  /\ UNCHANGED <<selected, keys, scaleVars, rosterVars, editVars>>

\* keys Down, 'j'
KeyNextRow ==
  /\ selected' = next_row(selected)
  /\ op' = [name |-> "next_row", arg |-> 0]
  /\ UNCHANGED <<calculator, keys, scaleVars, rosterVars, editVars>>

\* keys Up, 'k'
KeyPreviousRow ==
  /\ selected' = previous_row(selected)
  /\ op' = [name |-> "previous_row", arg |-> 0]
  /\ UNCHANGED <<calculator, keys, scaleVars, rosterVars, editVars>>

\* keys PageUp, '+'; explored for MaxKeyEdits presses of '+' and '-'
KeyPlus ==
  /\ keys < MaxKeyEdits
  /\ keys' = keys + 1
  /\ calculator' = adjust_selected(calculator, selected, 1)
  /\ op' = [name |-> "plus", arg |-> 0]
  /\ UNCHANGED <<selected, scaleVars, rosterVars, editVars>>

\* keys PageDown, '-'
KeyMinus ==
  /\ keys < MaxKeyEdits
  /\ keys' = keys + 1
  /\ calculator' = adjust_selected(calculator, selected, -1)
  /\ op' = [name |-> "minus", arg |-> 0]
  /\ UNCHANGED <<selected, scaleVars, rosterVars, editVars>>

\* App::new(), beside a Model::new()
InitApp ==
  /\ ScaleConstructed("IHK", 100)
  /\ students = NoStudents
  /\ AppNew

NextApp ==
  \/ \E points \in AppPointsInputs : set_points(points)
  \/ \E kind \in StandardKinds : change_scale(kind)
  \/ KeyToCustom
  \/ toggle_steps
  \/ KeyNextRow
  \/ KeyPreviousRow
  \/ KeyPlus
  \/ KeyMinus

SpecApp == InitApp /\ [][NextApp]_vars

\* ------------------------------------------------------- constructed scales
\* a scale of a standard kind was constructed with 1..MaxFreshTotal points
InitFresh ==
  /\ \E kind \in StandardKinds, max_points \in 1..MaxFreshTotal :
       ScaleConstructed(kind, max_points)
  /\ students = NoStudents
  /\ AppNew

NextFresh ==
  \/ \E kind \in StandardKinds : SetScale(kind)
  \/ ToggleHalfPoints

SpecFresh == InitFresh /\ [][NextFresh]_vars

\* ------------------------------------------------------------ display rows
\* GradingScale::to_grading_scale_table_data: the rows in the order of the
\* thresholds map, max from the next better grade's threshold minus 1.0
to_grading_scale_table_data(thr, max_points) ==
  [g \in 1..6 |->
     [grade |-> g,
      min2 |-> 2 * thr[g],
      max2 |-> IF g > 1 THEN 2 * thr[g - 1] - 2 ELSE 2 * max_points,
      pct |-> percentage_for_points(thr[g], max_points)]]

\* Model::get_scale_data: last_min is the threshold of the row before
get_scale_data(thr, max_points, half) ==
  [g \in 1..6 |->
     LET last_min == IF g = 1 THEN max_points ELSE thr[g - 1]
     IN [grade |-> g,
         min2 |-> 2 * thr[g],
         max2 |-> IF g = 1 THEN 2 * last_min
                  ELSE 2 * last_min - (IF half THEN 1 ELSE 2),
         pct |-> percentage_for_points(thr[g], max_points)]]

\* a roster with points in 0..StudentsTotal was loaded into a new Model
InitStudents ==
  /\ ScaleConstructed("IHK", StudentsTotal)
  /\ students \in Rosters(MaxStudents, 0..(2 * StudentsTotal))
  /\ AppNew

NextStudents ==
  \/ \E i \in 1..MaxStudents : IncrementStudentPoints(Names[i])
  \/ IncrementStudentPoints(AbsentName)
  \/ \E i \in 1..MaxStudents : DecrementStudentPoints(Names[i])
  \/ DecrementStudentPoints(AbsentName)
  \/ ToggleHalfPoints

SpecStudents == InitStudents /\ [][NextStudents]_vars

\* ------------------------------------------------------------- statistics
\* Student::grade: grade_for_points, Fail for None
Student_grade(student, thr) ==
  LET g == grade_for_points(thr, student.points2)
  IN IF g = 0 THEN 6 ELSE g

\* Model::grade_distribution, the loop from student i on: an absent key is
\* inserted with 0, a present one is incremented
RECURSIVE distribution_from(_, _, _, _)
distribution_from(list, thr, i, counts) ==
  IF i > Len(list) THEN counts
  ELSE LET grade == Student_grade(list[i], thr)
       IN distribution_from(list, thr, i + 1,
            IF grade \in DOMAIN counts
            THEN [counts EXCEPT ![grade] = @ + 1]
            ELSE [k \in DOMAIN counts \cup {grade} |->
                    IF k = grade THEN 0 ELSE counts[k]])

\* Model::grade_distribution: the map from grade number to counter
grade_distribution(list, thr) ==
  distribution_from(list, thr, 1, [k \in {} |-> 0])

RECURSIVE SumOver(_, _)
SumOver(f, ks) ==
  IF ks = {} THEN 0
  ELSE LET k == CHOOSE x \in ks : TRUE
       IN f[k] + SumOver(f, ks \ {k})

\* Model::grade_average: round_dp(grades_weighted / total_count, 2) in
\* hundredths; 0.0 / 0.0 is NaN
grade_average(list, thr) ==
  LET counts == grade_distribution(list, thr)
      graded == DOMAIN counts \cap 1..6
      total_count == SumOver(counts, graded)
      grades_weighted == SumOver([k \in graded |-> k * counts[k]], graded)
  IN round_dp(grades_weighted, total_count)

\* Model::get_student_data: one row per student, grade 0 for None
get_student_data(list, thr, max_points) ==
  [i \in 1..Len(list) |->
     [name |-> list[i].name,
      points2 |-> list[i].points2,
      percentage |-> percentage_for_points(list[i].points2, 2 * max_points),
      grade |-> grade_for_points(thr, list[i].points2)]]

\* the points (in halves) of the students whose statistics are computed
StatsPoints2 == {0, 20, 170, 190}

\* a roster was loaded into a new Model (IHK, 100 points)
InitStats ==
  /\ ScaleConstructed("IHK", 100)
  /\ students \in Rosters(MaxStatStudents, StatsPoints2)
  /\ AppNew

NextStats ==
  \/ \E kind \in StandardKinds : SetScale(kind)
  \/ ToggleHalfPoints

SpecStats == InitStats /\ [][NextStats]_vars

\* ------------------------------------------------ GradeScaleType::change
\* the f64 of h hundredths, and the two infinities
Finite(h) == [nan |-> FALSE, inf |-> 0, hundredths |-> h]
Infinity(sign) == [nan |-> FALSE, inf |-> sign, hundredths |-> 0]

\* the values change is called with: below 0.0, the ends, inside, above 1.0
ChangeValues ==
  {Finite(h) : h \in {-100, -1, 0, 55, 100, 101}} \cup {Infinity(1), Infinity(-1)}

\* the usize indexes change is called with: 0..MaxChangeIndex
ChangeIndexes == 0..MaxChangeIndex

\* scale.change(index, value) on the scale of the calculator
ApplyChange(index, value) ==
  /\ keys < MaxChanges
  /\ keys' = keys + 1
  /\ calculator' = [calculator EXCEPT !.scale = change(@, index, value)]
  /\ op' = [name |-> "change", arg |-> <<index, value>>]
  /\ UNCHANGED <<selected, scaleVars, rosterVars, editVars>>

\* a calculator with any standard scale or its Custom copy
InitChange ==
  /\ ScaleConstructed("IHK", 100)
  /\ students = NoStudents
  /\ selected = 0
  /\ keys = 0
  /\ state = "Running"
  /\ point_edit_field = NumberInputField_new
  /\ \E kind \in StandardKinds, custom \in BOOLEAN :
       calculator = [total_points |-> 100,
                     scale |-> IF custom THEN to_custom(Standard(kind))
                               ELSE Standard(kind),
                     half_steps |-> FALSE]

NextChange ==
  \E index \in ChangeIndexes, value \in ChangeValues : ApplyChange(index, value)

SpecChange == InitChange /\ [][NextChange]_vars

\* ------------------------------------------------------------ roster load
\* the characters that stand for the decimal digits in a points field
Digits == {"0", "1", "5"}

\* char::to_digit(10) of a decimal digit
DigitValue ==
  [c \in {"0", "1", "2", "3", "4", "5", "6", "7", "8", "9"} |->
     CASE c = "0" -> 0 [] c = "1" -> 1 [] c = "2" -> 2 [] c = "3" -> 3
       [] c = "4" -> 4 [] c = "5" -> 5 [] c = "6" -> 6 [] c = "7" -> 7
       [] c = "8" -> 8 [] c = "9" -> 9]

RECURSIVE IntValue(_)
IntValue(chars) ==
  IF chars = << >> THEN 0
  ELSE 10 * IntValue(SubSeq(chars, 1, Len(chars) - 1))
         + DigitValue[chars[Len(chars)]]

\* str::parse::<f64> of a points field made of digits and '.', as the csv
\* deserializer applies it: digits with at most one '.', at least one digit;
\* the value in halves (the fields have the fractions .0 and .5 only)
parse_points(field) ==
  LET dots == {i \in 1..Len(field) : field[i] = "."}
      dot == IF dots = {} THEN Len(field) + 1 ELSE CHOOSE i \in dots : TRUE
      whole == SubSeq(field, 1, dot - 1)
      frac == SubSeq(field, dot + 1, Len(field))
      ok == /\ Cardinality(dots) <= 1
            /\ \A i \in 1..Len(field) : field[i] \in Digits \cup {"."}
            /\ Len(whole) + Len(frac) >= 1
  IN IF ok
     THEN [ok |-> TRUE,
           points2 |-> 2 * IntValue(whole)
                         + (IF frac # << >> /\ frac[1] = "5" THEN 1 ELSE 0)]
     ELSE [ok |-> FALSE, points2 |-> 0]

\* the points fields of the rows of a roster file
CsvFields ==
  {<< >>, <<"5">>, <<"5", ".">>, <<".", "5">>, <<"1", ".", "5">>, <<"x">>}

\* the roster files: one that cannot be opened, and the files of at most
\* MaxRows rows
CsvFiles ==
  {[opens |-> FALSE, rows |-> << >>]} \cup
  UNION {{[opens |-> TRUE, rows |-> f] : f \in [1..k -> CsvFields]} : k \in 0..MaxRows}

\* mutant: a row that does not parse is skipped
RECURSIVE from_csv_rows_skipping(_, _, _)
from_csv_rows_skipping(rows, i, list) ==
  IF i > Len(rows) THEN [ok |-> TRUE, students |-> list]
  ELSE LET p == parse_points(rows[i])
       IN IF ~p.ok THEN from_csv_rows_skipping(rows, i + 1, list)
          ELSE from_csv_rows_skipping(rows, i + 1,
                 Append(list, [name |-> Names[i], points2 |-> p.points2]))

\* StudentList::from_csv_file, the loop from row i on: the first row that
\* does not deserialize returns the error
RECURSIVE from_csv_rows(_, _, _)
from_csv_rows(rows, i, list) ==
  IF i > Len(rows) THEN [ok |-> TRUE, students |-> list]
  ELSE LET p == parse_points(rows[i])
       IN IF ~p.ok THEN [ok |-> FALSE, students |-> << >>]
          ELSE from_csv_rows(rows, i + 1,
                 Append(list, [name |-> Names[i], points2 |-> p.points2]))

\* StudentList::from_csv_file: Err when the file cannot be opened
from_csv_file(file) ==
  IF ~file.opens THEN [ok |-> FALSE, students |-> << >>]
  ELSE from_csv_rows(file.rows, 1, << >>)

\* Model::load_student_data: the list is assigned only after the ? operator
load_student_data(file) ==
  LET loaded == from_csv_file(file)
  IN /\ students' = IF loaded.ok THEN loaded.students ELSE students
     /\ op' = [name |-> "load_student_data", arg |-> <<file, loaded.ok>>]
     /\ UNCHANGED <<scaleVars, appVars, editVars>>

InitLoad ==
  /\ ScaleConstructed("IHK", 100)
  /\ students = NoStudents
  /\ AppNew

NextLoad ==
  \E file \in CsvFiles : load_student_data(file)

SpecLoad == InitLoad /\ [][NextLoad]_vars

\* ------------------------------------------------------------------ export
\* a destination path: its directory and the parts of its file name between
\* the dots (<<"a", "csv">> is a.csv, <<"", "csv">> is .csv, << >> is a path
\* without file name)
NameWords == {"", "a", "csv", "toml", "xlsx", "txt", "CSV"}
Directories == {"", "out.csv"}
ExportPaths ==
  UNION {{[dir |-> d, name |-> f] : d \in Directories, f \in [1..k -> NameWords]}
           : k \in 0..MaxNameParts}

\* what an exporter returns: Ok(()) or the error of the file system or of the
\* writer, converted into ExportError { details }
ExporterResults == {"Ok", "io error", "writer error"}

\* Path::extension(): None without file name, for "..", without a dot and for
\* a name whose only dot is its first character; else the part after the last
\* dot
NoExtension == [some |-> FALSE, ext |-> ""]
extension(path) ==
  LET parts == path.name
  IN IF Len(parts) <= 1 THEN NoExtension
     ELSE IF Len(parts) = 2 /\ parts[1] = "" THEN NoExtension
     ELSE IF parts = <<"", "", "">> THEN NoExtension
     ELSE [some |-> TRUE, ext |-> parts[Len(parts)]]

\* mutant: every other extension is exported as csv
export_default_csv(path, result) ==
  LET e == extension(path)
  IN IF e.some /\ e.ext = "toml" THEN [exporter |-> "TomlExporter", result |-> result]
     ELSE IF e.some /\ e.ext = "xlsx" THEN [exporter |-> "XlsxExporter", result |-> result]
     ELSE [exporter |-> "CsvExporter", result |-> result]

\* export(path, data): the exporter invoked and the result returned, result
\* being what the invoked exporter returns
export(path, result) ==
  LET e == extension(path)
  IN IF e.some /\ e.ext = "csv" THEN [exporter |-> "CsvExporter", result |-> result]
     ELSE IF e.some /\ e.ext = "toml" THEN [exporter |-> "TomlExporter", result |-> result]
     ELSE IF e.some /\ e.ext = "xlsx" THEN [exporter |-> "XlsxExporter", result |-> result]
     ELSE [exporter |-> "none", result |-> "File type not supported."]

\* a call of export; op.arg is the path, the exporter invoked and the result
Export(path, result) ==
  /\ op' = [name |-> "export",
            arg |-> <<path, export(path, result).exporter, export(path, result).result>>]
  /\ UNCHANGED <<scaleVars, rosterVars, appVars, editVars>>

InitExport ==
  /\ ScaleConstructed("IHK", 100)
  /\ students = NoStudents
  /\ AppNew

NextExport ==
  \E path \in ExportPaths, result \in ExporterResults : Export(path, result)

SpecExport == InitExport /\ [][NextExport]_vars

\* ------------------------------------------------------ point edit field
\* the digit keys pressed while the points are edited
DigitKeys == {"9"}

\* the decimal digits of u32::MAX
U32MaxDigits == <<"4", "2", "9", "4", "9", "6", "7", "2", "9", "5">>

\* a > b for two digit strings of the same length, from position i on
RECURSIVE GreaterDigits(_, _, _)
GreaterDigits(a, b, i) ==
  IF i > Len(a) THEN FALSE
  ELSE IF DigitValue[a[i]] # DigitValue[b[i]] THEN DigitValue[a[i]] > DigitValue[b[i]]
  ELSE GreaterDigits(a, b, i + 1)

\* str::parse::<u32> of a string of digits: Err for the empty string and for
\* a number above u32::MAX (the digit keys give no value between 2^31 and
\* u32::MAX)
parse_u32(input) ==
  IF input = << >> THEN [ok |-> FALSE, value |-> 0]
  ELSE IF Len(input) > Len(U32MaxDigits)
            \/ (Len(input) = Len(U32MaxDigits) /\ GreaterDigits(input, U32MaxDigits, 1))
       THEN [ok |-> FALSE, value |-> 0]
  ELSE [ok |-> TRUE, value |-> IntValue(input)]

\* NumberInputField::clamp_cursor
clamp_cursor(input, new_cursor_pos) ==
  IF new_cursor_pos < 0 THEN 0
  ELSE IF new_cursor_pos > Len(input) THEN Len(input) ELSE new_cursor_pos

\* NumberInputField::move_cursor_left (saturating_sub)
move_cursor_left(field) ==
  [field EXCEPT !.character_index =
     clamp_cursor(field.input, IF @ = 0 THEN 0 ELSE @ - 1)]

\* NumberInputField::move_cursor_right
move_cursor_right(field) ==
  [field EXCEPT !.character_index = clamp_cursor(field.input, @ + 1)]

\* NumberInputField::byte_index
byte_index(field) ==
  IF field.character_index < Len(field.input) THEN field.character_index
  ELSE Len(field.input)

\* NumberInputField::enter_char: nothing is inserted once the input has 10
\* characters
enter_char(field, new_char) ==
  IF Len(field.input) < 10
  THEN LET index == byte_index(field)
       IN move_cursor_right(
            [field EXCEPT !.input = SubSeq(@, 1, index) \o <<new_char>>
                                      \o SubSeq(@, index + 1, Len(@))])
  ELSE field

\* NumberInputField::delete_char
delete_char(field) ==
  IF field.character_index # 0
  THEN LET current_index == field.character_index
       IN move_cursor_left(
            [field EXCEPT !.input = SubSeq(@, 1, current_index - 1)
                                      \o SubSeq(@, current_index + 1, Len(@))])
  ELSE field

\* AppState::Running, key 'p'
KeyP ==
  /\ state = "Running"
  /\ state' = "RunningEditPoints"
  /\ op' = [name |-> "key", arg |-> "p"]
  /\ UNCHANGED <<point_edit_field, appVars, scaleVars, rosterVars>>

\* AppState::RunningEditPoints, a digit key
KeyDigit(c) ==
  /\ state = "RunningEditPoints"
  /\ point_edit_field' = enter_char(point_edit_field, c)
  /\ op' = [name |-> "key", arg |-> c]
  /\ UNCHANGED <<state, appVars, scaleVars, rosterVars>>

\* AppState::RunningEditPoints, Backspace
KeyBackspace ==
  /\ state = "RunningEditPoints"
  /\ point_edit_field' = delete_char(point_edit_field)
  /\ op' = [name |-> "key", arg |-> "Backspace"]
  /\ UNCHANGED <<state, appVars, scaleVars, rosterVars>>

\* AppState::RunningEditPoints, Left
KeyLeft ==
  /\ state = "RunningEditPoints"
  /\ point_edit_field' = move_cursor_left(point_edit_field)
  /\ op' = [name |-> "key", arg |-> "Left"]
  /\ UNCHANGED <<state, appVars, scaleVars, rosterVars>>

\* AppState::RunningEditPoints, Right
KeyRight ==
  /\ state = "RunningEditPoints"
  /\ point_edit_field' = move_cursor_right(point_edit_field)
  /\ op' = [name |-> "key", arg |-> "Right"]
  /\ UNCHANGED <<state, appVars, scaleVars, rosterVars>>

\* AppState::RunningEditPoints, Esc
KeyEsc ==
  /\ state = "RunningEditPoints"
  /\ state' = "Running"
  /\ op' = [name |-> "key", arg |-> "Esc"]
  /\ UNCHANGED <<point_edit_field, appVars, scaleVars, rosterVars>>

\* AppState::RunningEditPoints, Enter: get_number (parse().expect(..) panics
\* on Err; on Ok the input is cleared and the cursor reset), set_points
KeyEnter ==
  /\ state = "RunningEditPoints"
  /\ op' = [name |-> "key", arg |-> "Enter"]
  /\ LET number == parse_u32(point_edit_field.input)
     IN IF number.ok
        THEN /\ point_edit_field' = [input |-> << >>, character_index |-> 0]
             /\ calculator' = [calculator EXCEPT !.total_points = number.value]
             /\ state' = "Running"
        ELSE /\ state' = "Panicked"
             /\ UNCHANGED <<point_edit_field, calculator>>
  /\ UNCHANGED <<selected, keys, scaleVars, rosterVars>>

InitInput ==
  /\ ScaleConstructed("IHK", 100)
  /\ students = NoStudents
  /\ AppNew

NextInput ==
  \/ KeyP
  \/ \E c \in DigitKeys : KeyDigit(c)
  \/ KeyBackspace
  \/ KeyLeft
  \/ KeyRight
  \/ KeyEsc
  \/ KeyEnter

SpecInput == InitInput /\ [][NextInput]_vars

\* ------------------------------------------------------- edited thresholds
\* a scale is constructed, its thresholds are edited and its maximum points
\* are set
InitEdits ==
  /\ \E kind \in StandardKinds, max_points \in SetPointsInputs :
       ScaleConstructed(kind, max_points)
  /\ students = NoStudents
  /\ AppNew

NextEdits ==
  \/ \E grade \in Grade : IncrementThreshold(grade)
  \/ \E grade \in Grade : DecrementThreshold(grade)
  \/ \E points \in SetPointsInputs : SetMaxPoints(points)

SpecEdits == InitEdits /\ [][NextEdits]_vars

\* ------------------------------------------------------- Commands::parse
\* the pieces a raw command line is made of: a whitespace character, the two
\* command names, another word, a digit, and the leading characters of an
\* absolute and of a home-relative path; adjacent pieces other than " " form
\* one word
CommandPieces == {" ", "set-points", "export-to", "quit", "5", "/", "~"}

\* the raw inputs: up to MaxCommandLen pieces
RawInputs == UNION {[1..n -> CommandPieces] : n \in 0..MaxCommandLen}

\* whether UserDirs::new() and std::env::current_dir() succeed
Environments == [home : BOOLEAN, cwd : BOOLEAN]

\* raw_input.trim().split_whitespace(): the non-empty runs of pieces other
\* than whitespace, in order
RECURSIVE split_whitespace(_)
split_whitespace(raw) ==
  IF raw = << >> THEN << >>
  ELSE LET rest == split_whitespace(Tail(raw))
       IN IF Head(raw) = " " THEN rest
          ELSE IF Len(raw) > 1 /\ raw[2] # " "
               THEN <<(<<Head(raw)>> \o Head(rest))>> \o Tail(rest)
          ELSE <<(<<Head(raw)>>)>> \o rest

\* whether a word is a string of decimal digits
IsDigits(word) == \A i \in 1..Len(word) : word[i] \in DOMAIN DigitValue

\* resolve_path: an absolute path is kept, "~..." is pushed onto the home
\* directory, anything else is joined to the current directory; None when
\* the directory is not available
resolve_path(user_input, env) ==
  IF user_input[1] = "/" THEN [some |-> TRUE, path |-> user_input]
  ELSE IF user_input[1] = "~"
       THEN IF env.home THEN [some |-> TRUE, path |-> <<"$HOME", "/">> \o user_input]
            ELSE [some |-> FALSE, path |-> << >>]
  ELSE IF env.cwd THEN [some |-> TRUE, path |-> <<"$CWD", "/">> \o user_input]
  ELSE [some |-> FALSE, path |-> << >>]

\* the three outcomes of a call: Ok(command), Err(message) and a panic
Ok_SetMaxPoints(points) ==
  [result |-> "Ok", command |-> "SetMaxPoints", points |-> points, path |-> << >>]
Ok_Export(path) ==
  [result |-> "Ok", command |-> "Export", points |-> 0, path |-> path]
ParseErr == [result |-> "Err", command |-> "none", points |-> 0, path |-> << >>]
ParsePanic == [result |-> "Panic", command |-> "none", points |-> 0, path |-> << >>]

\* Commands::parse: args[0] is indexed without a length check (the check is
\* commented out), which panics when the command has no argument
parse(raw_input, env) ==
  LET parts == split_whitespace(raw_input)
      cmd == IF parts = << >> THEN << >> ELSE Head(parts)
      args == IF parts = << >> THEN << >> ELSE Tail(parts)
  IN IF cmd = << >> THEN ParseErr
     ELSE IF cmd = <<"set-points">>
          THEN IF args = << >> THEN ParsePanic
               ELSE IF IsDigits(args[1]) /\ parse_u32(args[1]).ok
                    THEN Ok_SetMaxPoints(parse_u32(args[1]).value)
               ELSE ParseErr
     ELSE IF cmd = <<"export-to">>
          THEN IF args = << >> THEN ParsePanic
               ELSE IF resolve_path(args[1], env).some
                    THEN Ok_Export(resolve_path(args[1], env).path)
               ELSE ParseErr
     ELSE ParseErr

\* a call of Commands::parse with the input drawn at the start; op.arg is the
\* raw input, the environment and the outcome
Parse ==
  /\ op.name = "raw_input"
  /\ op' = [name |-> "parse",
            arg |-> <<op.arg[1], op.arg[2], parse(op.arg[1], op.arg[2])>>]
  /\ UNCHANGED <<scaleVars, rosterVars, appVars, editVars>>

InitCommand ==
  /\ \E raw_input \in RawInputs, env \in Environments :
       op = [name |-> "raw_input", arg |-> <<raw_input, env>>]
  /\ LET s == from_type(Standard("IHK"), 100)
     IN /\ scale_type = s.scale_type
        /\ total_points = s.total_points
        /\ thresholds = s.thresholds
        /\ use_half_points = s.use_half_points
  /\ edits = 0
  /\ students = NoStudents
  /\ AppNew

NextCommand == Parse

SpecCommand == InitCommand /\ [][NextCommand]_vars

\* ================================================================ claims
\* the operations that end in GradingScale::recalculate, and construction
RecomputeOps ==
  {"from_type", "SetMaxPoints", "IncrementMaxPoints", "DecrementMaxPoints",
   "SetScale", "ToggleHalfPoints"}

\* all thresholds of a fresh IHK scale at 100 points
IHK100 == [g \in Grade |-> <<92, 81, 67, 50, 30, 0>>[g]]

\* the point values, in halves, for which grade_for_points is queried: the
\* neighbourhood of every threshold (the result changes nowhere else), and the
\* two values of the 100-point example
QueryPoints2 ==
  UNION {{2 * thresholds[g] + d : d \in (-QuerySlack)..QuerySlack} : g \in Grade}
    \cup {2 * 95, 2 * 81}

\* percentage of grade g in the active definition, in hundredths
PctOf(g) ==
  LET i == CHOOSE i \in 1..6 : values(scale_type)[i][1] = g
  IN values(scale_type)[i][2]

\* C1: in every reachable state, a better grade's threshold is at least the
\* threshold of every worse grade.
C1_ThresholdsMonotone ==
  \A g \in Grade : \A h \in Grade : g < h => thresholds[g] >= thresholds[h]

\* C2: on a freshly constructed standard scale, grade_for_points(max points)
\* is grade 1 (VeryGood).
C2_FullMarksVeryGood ==
  op.name = "from_type" => grade_for_points(thresholds, 2 * total_points) = 1

\* C3: IncrementThreshold(g) raises thresholds[g] by exactly 0.5 in half-point
\* mode and by exactly 1.0 otherwise; DecrementThreshold(g) lowers it by the
\* same amounts.
C3_StepIsHalfOrOne ==
  [][\A g \in Grade :
       /\ IncrementThreshold(g) =>
            2 * thresholds'[g] = 2 * thresholds[g] + (IF use_half_points THEN 1 ELSE 2)
       /\ DecrementThreshold(g) =>
            2 * thresholds'[g] = 2 * thresholds[g] - (IF use_half_points THEN 1 ELSE 2)]_vars

\* C4: ToggleHalfPoints flips use_half_points and leaves every threshold
\* unchanged, also after manual threshold edits.
C4_ToggleKeepsThresholds ==
  [][ToggleHalfPoints =>
       /\ use_half_points' = ~use_half_points
       /\ thresholds' = thresholds]_vars

\* C5: for any thresholds and any points p, grade_for_points(p) is the best
\* grade whose threshold is strictly below p, and None (0) when there is no
\* such grade; IHK at 100 points maps 95 to grade 1 and 81 to grade 3.
C5_BestGradeStrictlyBelow ==
  /\ \A p2 \in QueryPoints2 :
       LET r == grade_for_points(thresholds, p2)
           below == {g \in Grade : 2 * thresholds[g] < p2}
       IN IF below = {} THEN r = 0
          ELSE r \in below /\ \A g \in below : r <= g
  /\ thresholds = IHK100 =>
       /\ grade_for_points(thresholds, 2 * 95) = 1
       /\ grade_for_points(thresholds, 2 * 81) = 3

\* C5 witness: a fresh IHK scale at 100 points, where 81 points (the
\* threshold of grade 2) is graded 3 and 0 points get no grade.
C5_Witness ==
  /\ scale_type = Standard("IHK") /\ total_points = 100 /\ thresholds = IHK100
  /\ grade_for_points(thresholds, 2 * thresholds[2]) = 3
  /\ grade_for_points(thresholds, 0) = 0

\* C6: total_points is positive in every reachable state.
C6_MaxPointsPositive == total_points > 0

\* C7: right after IncrementThreshold or DecrementThreshold of a grade, the
\* scale type is Custom, whatever it was before.
C7_EditPromotesToCustom ==
  (op.name \in {"IncrementThreshold", "DecrementThreshold"} /\ op.arg \in Grade)
    => is_custom(scale_type)

\* C7 witness: grade 3 of a fresh IHK scale at 100 points was incremented; the
\* scale is now a Custom copy of the IHK table.
C7_Witness ==
  /\ op = [name |-> "IncrementThreshold", arg |-> 3]
  /\ scale_type = Custom(IHK_BOUNDARIES)
  /\ total_points = 100
  /\ thresholds = [IHK100 EXCEPT ![3] = 68]

\* C8: the threshold of grade 6 (Fail) is 0 in every reachable state.
C8_FailThresholdZero == thresholds[6] = 0

\* t is (pct/100 * m).round(): the whole number nearest to the product, a
\* half-way product going away from zero unless the f64 product lies below it
IsRoundOfProduct(t, pct, m) ==
  LET d == 100 * Abs(t) - pct * Abs(m)
  IN /\ (t >= 0) = (m >= 0) \/ t = 0
     /\ -50 <= d /\ d <= 50
     /\ d = -50 => pct * Abs(m) # 0 /\ ProductBelowTie(pct, Abs(m), Abs(t))
     /\ d = 50 => ~ProductBelowTie(pct, Abs(m), Abs(t) - 1)

\* C9: right after construction, a change of the maximum points, a toggle of
\* half-point mode or a change of scale kind, every threshold is
\* round(pct * total_points) for the percentage of its grade in the active
\* definition; IHK at 100 points gives 92, 81, 67, 50, 30, 0.
C9_ThresholdsAreRoundedPercentages ==
  op.name \in RecomputeOps =>
    /\ \A g \in Grade : IsRoundOfProduct(thresholds[g], PctOf(g), total_points)
    /\ (scale_type = Standard("IHK") /\ total_points = 100) => thresholds = IHK100

\* C9 witness: after SetMaxPoints(45) on a TECHNIKER scale the thresholds are
\* 38, 31, 25, 18, 9, 0 (0.7 * 45 is 31.499999999999996 in f64).
C9_Witness ==
  /\ op = [name |-> "SetMaxPoints", arg |-> 45]
  /\ scale_type = Standard("TECHNIKER")
  /\ thresholds = [g \in Grade |-> <<38, 31, 25, 18, 9, 0>>[g]]

\* C10: for a standard definition and positive maximum points, the recomputed
\* thresholds do not increase from grade 1 to grade 6, and grade 6 is at 0.
C10_StandardRecomputeMonotone ==
  (op.name \in RecomputeOps /\ scale_type.kind \in StandardKinds /\ total_points > 0)
    => /\ \A g \in 1..5 : thresholds[g] >= thresholds[g + 1]
       /\ thresholds[6] = 0

\* C10 witness: a LINEAR scale recomputed at 1 point by DecrementMaxPoints,
\* where neighbouring grades share a threshold (1, 1, 0, 0, 0, 0).
C10_Witness ==
  /\ op.name = "DecrementMaxPoints"
  /\ scale_type = Standard("LINEAR")
  /\ total_points = 1
  /\ thresholds = [g \in Grade |-> <<1, 1, 0, 0, 0, 0>>[g]]

\* C11: with half-point mode off, IncrementThreshold(g) and
\* DecrementThreshold(g) change thresholds[g] by exactly 1 and leave every
\* other threshold, total_points and use_half_points as they were.
C11_EditChangesOneThresholdByOne ==
  [][\A g \in Grade :
       /\ (~use_half_points /\ IncrementThreshold(g)) =>
            /\ thresholds' = [thresholds EXCEPT ![g] = @ + 1]
            /\ total_points' = total_points
            /\ use_half_points' = use_half_points
       /\ (~use_half_points /\ DecrementThreshold(g)) =>
            /\ thresholds' = [thresholds EXCEPT ![g] = @ - 1]
            /\ total_points' = total_points
            /\ use_half_points' = use_half_points]_vars

\* C11 witness: Satisfactory of a fresh IHK scale at 100 points was
\* incremented with half-point mode off: 68, with 92 and 81 kept.
C11_Witness ==
  /\ op = [name |-> "IncrementThreshold", arg |-> 3]
  /\ ~use_half_points /\ total_points = 100 /\ edits = 1
  /\ thresholds[3] = 68 /\ thresholds[1] = 92 /\ thresholds[2] = 81

\* C12: every student's points stay within 0..total_points under any sequence
\* of IncrementStudentPoints and DecrementStudentPoints.
C12_StudentPointsWithinBounds ==
  \A i \in 1..Len(students) :
    students[i].points2 >= 0 /\ students[i].points2 <= 2 * total_points

\* C20: IncrementStudentPoints for a student whose points plus the step (1.0,
\* or 0.5 in half-point mode) would exceed total_points leaves that student's
\* points and every other student's points unchanged.
C20_IncrementBeyondMaxIsNoOp ==
  [][\A n \in 1..Len(students) :
       (/\ IncrementStudentPoints(students[n].name)
        /\ students[n].points2 + (IF use_half_points THEN 1 ELSE 2) > 2 * total_points)
         => students' = students]_vars

\* C20 witness: Bob, at the maximum, was incremented in whole-point mode and
\* update_points was not called; Alice is below the maximum.
C20_Witness ==
  /\ op.name = "IncrementStudentPoints" /\ op.arg = <<"Bob", FALSE>>
  /\ ~use_half_points
  /\ Len(students) = 2
  /\ students[2].points2 = 2 * total_points
  /\ students[1].points2 < 2 * total_points

\* the number of students of the roster with that grade
StudentsWithGrade(g) ==
  Cardinality({i \in 1..Len(students) : Student_grade(students[i], thresholds) = g})

\* the counter grade_distribution holds for a grade, 0 for an absent key
CountOf(g) ==
  LET counts == grade_distribution(students, thresholds)
  IN IF g \in DOMAIN counts THEN counts[g] ELSE 0

\* C13: grade_distribution maps each grade to exactly the number of students
\* with that grade, and the counts sum to the roster size.
C13_DistributionCountsStudents ==
  /\ \A g \in Grade : CountOf(g) = StudentsWithGrade(g)
  /\ SumOver([g \in Grade |-> CountOf(g)], Grade) = Len(students)

\* the sum of the grades of the students from position i on
RECURSIVE GradeSum(_)
GradeSum(i) ==
  IF i > Len(students) THEN 0
  ELSE Student_grade(students[i], thresholds) + GradeSum(i + 1)

\* C14: for a non-empty roster grade_average is the sum of the students' grades
\* divided by their number, rounded to two decimals (grades 1, 1, 2, 6: 2.5).
C14_AverageIsMeanOfGrades ==
  Len(students) > 0 =>
    grade_average(students, thresholds) = round_dp(GradeSum(1), Len(students))

\* C15: every student has a grade in 1..6 in every derived view: Student::grade,
\* the keys of grade_distribution, and the exam-result rows (no grade found
\* counts as 6).
C15_EveryViewGradesOneToSix ==
  /\ \A i \in 1..Len(students) : Student_grade(students[i], thresholds) \in Grade
  /\ DOMAIN grade_distribution(students, thresholds) \subseteq Grade
  /\ \A i \in 1..Len(students) :
       LET row == get_student_data(students, thresholds, total_points)[i]
       IN /\ row.grade \in Grade
          /\ row.grade = Student_grade(students[i], thresholds)

\* rows are six rows in best-to-worst order whose min is the grade's threshold
\* and whose max is total_points for the best grade and the next better
\* grade's min minus the step of the mode for the others
IsDisplayRows(rows) ==
  /\ DOMAIN rows = 1..6
  /\ \A g \in Grade :
       /\ rows[g].grade = g
       /\ rows[g].min2 = 2 * thresholds[g]
       /\ rows[g].max2 = IF g = 1 THEN 2 * total_points
                         ELSE rows[g - 1].min2 - (IF use_half_points THEN 1 ELSE 2)

\* C16: the display rows are in best-to-worst order, each row's min is
\* thresholds[grade], the best grade's max is total_points and every other
\* grade's max is the next better grade's min minus 0.5 in half-point mode and
\* minus 1.0 otherwise.
C16_DisplayRowsFollowThresholds ==
  /\ IsDisplayRows(get_scale_data(thresholds, total_points, use_half_points))
  /\ IsDisplayRows(to_grading_scale_table_data(thresholds, total_points))

\* the rows of Model::get_scale_data alone are as C16 says
C16_ModelRowsFollowThresholds ==
  IsDisplayRows(get_scale_data(thresholds, total_points, use_half_points))

\* the distance in hundredths between the percentage of grade g's threshold and
\* the percentage that defines g
RoundTripError(g) ==
  Abs(percentage_for_points(thresholds[g], total_points).hundredths - PctOf(g))

\* C18 as stated: for an unmodified standard scale with total_points > 0,
\* percentage_for_points(thresholds[g], total_points) is within 0.01 of the
\* defining percentage of every grade g.
C18_RoundTripWithinTolerance ==
  (~is_custom(scale_type) /\ total_points > 0) =>
    \A g \in Grade : RoundTripError(g) <= 1

\* C18 amended: for an unmodified standard scale with total_points >= 34,
\* percentage_for_points(thresholds[g], total_points) is within 0.01 of the
\* defining percentage of every grade g.
C18_RoundTripFrom34Points ==
  (~is_custom(scale_type) /\ total_points >= 34) =>
    \A g \in Grade : RoundTripError(g) <= 1

\* C18 witness: IHK was selected at 34 points, where grade 1 comes back as 0.91
\* for the defining 0.92
C18_Witness ==
  /\ op.name = "SetScale" /\ scale_type = Standard("IHK")
  /\ total_points = 34
  /\ thresholds[1] = 31
  /\ percentage_for_points(thresholds[1], total_points).hundredths = 91

\* values has six entries, one per grade, with percentages that do not
\* increase as the grade worsens
IsScaleDefinition(v) ==
  /\ Len(v) = 6
  /\ \A i \in 1..6 : v[i][1] = i
  /\ \A i \in 1..5 : v[i][2] >= v[i + 1][2]

\* C17: in every reachable state the scale definition has exactly 6 entries,
\* one per grade, with percentages non-increasing as the grade worsens, also a
\* Custom one after change(index, value) calls and '+'/'-' edits.
C17_DefinitionsMonotone ==
  /\ IsScaleDefinition(values(scale_type))
  /\ IsScaleDefinition(values(calculator.scale))

ClampedTo01(value) ==
  IF value.inf # 0 THEN (IF value.inf > 0 THEN 100 ELSE 0)
  ELSE IF value.hundredths > 100 THEN 100
  ELSE IF value.hundredths < 0 THEN 0 ELSE value.hundredths

\* C21: change(index, value) on a Custom definition with index in 0..5 sets
\* the percentage of entry index to value clamped to 0.0..1.0 and leaves the
\* other five entries as they were; on a definition that is not Custom, or
\* with an index outside 0..5, nothing changes.
C21_ChangeSetsOneClampedEntry ==
  [][\A index \in ChangeIndexes, value \in ChangeValues :
       ApplyChange(index, value) =>
         IF is_custom(calculator.scale) /\ index \in 0..5
         THEN /\ is_custom(calculator'.scale)
              /\ \A i \in 1..6 :
                   /\ values(calculator'.scale)[i][1] = values(calculator.scale)[i][1]
                   /\ values(calculator'.scale)[i][2] =
                        IF i = index + 1 THEN ClampedTo01(value)
                        ELSE values(calculator.scale)[i][2]
         ELSE calculator' = calculator]_vars

\* C21 witness: change(2, 1.01) was applied to a Custom scale and entry 2 is
\* 1.0 beside the entries of IHK
C21_Witness ==
  /\ op.name = "change" /\ op.arg = <<2, Finite(101)>>
  /\ calculator.scale =
       Custom(<<<<1, 92>>, <<2, 81>>, <<3, 100>>, <<4, 50>>, <<5, 30>>, <<6, 0>>>>)

\* C21 witness of the ignored calls: change(6, 0.55) was applied to a Custom
\* scale, which is still the copy of IHK
C21_WitnessIgnored ==
  /\ op.name = "change" /\ op.arg = <<6, Finite(55)>>
  /\ keys = 1
  /\ calculator.scale = to_custom(Standard("IHK"))

\* the file opens and every one of its rows has a points field that parses
AllRowsParse(file) ==
  file.opens /\ \A i \in 1..Len(file.rows) : parse_points(file.rows[i]).ok

\* C22: when a row of the roster file does not parse (or the file does not
\* open) the load fails as a whole: the roster loaded before and the scale are
\* unchanged; a roster that is installed has one student per row of the file.
C22_LoadIsAllOrNothing ==
  [][LET file == op'.arg[1] IN
       load_student_data(file) =>
         /\ ~AllRowsParse(file) => students' = students
         /\ AllRowsParse(file) =>
              /\ Len(students') = Len(file.rows)
              /\ \A i \in 1..Len(file.rows) :
                   students'[i].points2 = parse_points(file.rows[i]).points2
         /\ UNCHANGED scaleVars]_vars

\* C22 witness: a file whose second row does not parse was loaded while a
\* roster of two students (5 and 1.5 points) loaded before is installed
C22_Witness ==
  /\ op.name = "load_student_data"
  /\ op.arg = <<[opens |-> TRUE, rows |-> <<<<".", "5">>, <<"x">>>>], FALSE>>
  /\ Len(students) = 2
  /\ students[1].points2 = 10 /\ students[2].points2 = 3

\* C23: export dispatches on the extension of the destination: csv, toml and
\* xlsx invoke the exporter of that format and return what it returns; every
\* other extension and a missing one invoke no exporter and return the error
\* "File type not supported.".
C23_ExportDispatchesOnExtension ==
  op.name = "export" =>
    LET e == extension(op.arg[1])
        supported == e.some /\ e.ext \in {"csv", "toml", "xlsx"}
    IN /\ supported =>
            /\ op.arg[2] = (CASE e.ext = "csv" -> "CsvExporter"
                              [] e.ext = "toml" -> "TomlExporter"
                              [] e.ext = "xlsx" -> "XlsxExporter")
            /\ op.arg[3] \in ExporterResults
       /\ ~supported =>
            /\ op.arg[2] = "none"
            /\ op.arg[3] = "File type not supported."

\* C23 witness: a.txt in a directory named out.csv was refused
C23_Witness ==
  /\ op.name = "export"
  /\ op.arg = <<[dir |-> "out.csv", name |-> <<"a", "txt">>], "none",
                "File type not supported.">>

\* C23 witness of a dispatch: a.toml went to the TomlExporter
C23_WitnessToml ==
  /\ op.name = "export"
  /\ op.arg = <<[dir |-> "", name |-> <<"a", "toml">>], "TomlExporter", "Ok">>

\* C24: IncrementThreshold and DecrementThreshold change the thresholds only:
\* the percentage table of the scale type after the edit is the table before
\* it; and SetMaxPoints (also with the value total_points already has) sets
\* every threshold to round(pct * points) of that table, whatever was edited.
C24_EditKeepsTableAndSetMaxPointsResets ==
  [][/\ \A g \in Grade :
          (IncrementThreshold(g) \/ DecrementThreshold(g)) =>
            /\ values(scale_type') = values(scale_type)
            /\ is_custom(scale_type')
     /\ \A points \in SetPointsInputs :
          SetMaxPoints(points) =>
            /\ values(scale_type') = values(scale_type)
            /\ LET v == values(scale_type')
               IN \A i \in 1..6 : thresholds'[v[i][1]] = mul_round(v[i][2], points)]_vars

\* C24 witness: SetMaxPoints(100) was applied to a scale made Custom by an
\* edit at 100 points, and the thresholds are those of IHK again
C24_Witness ==
  /\ op = [name |-> "SetMaxPoints", arg |-> 100]
  /\ scale_type = to_custom(Standard("IHK"))
  /\ thresholds = IHK100

\* C25: after any sequence of enter_char, delete_char and cursor moves the
\* input field holds at most 9 digits.
C25_FieldHoldsAtMostNineDigits ==
  Len(point_edit_field.input) <= 9

\* C28: in RunningEditPoints, Enter completes without panic for every content
\* of the input field, the empty one included: total_points is the number
\* typed, the field is reset and the app is Running again.
C28_EnterCommitsWithoutPanic ==
  [][KeyEnter =>
       /\ state' = "Running"
       /\ point_edit_field' = NumberInputField_new]_vars

\* C29: Esc discards the edit: total_points is unchanged and no digit typed
\* before Esc is in the field once the app is Running again, so a later edit
\* starts from an empty field.
C29_EscDiscardsTheEdit ==
  /\ [](state = "Running" => point_edit_field.input = << >>)
  /\ [][KeyEsc => calculator' = calculator]_vars

\* Esc alone leaves total_points as it was
C29_EscKeepsTotalPoints ==
  [][KeyEsc => calculator' = calculator]_vars

\* grade_for_points with None mapped to the worst grade
GradeOrWorst(points2) ==
  LET g == grade_for_points(thresholds, points2)
  IN IF g = 0 THEN 6 ELSE g

\* C26: for an unmodified standard scale with half-point mode off and every
\* whole p in 0..total_points, the grade of the display row whose band
\* min..max contains p is the grade grade_for_points gives p (None counted as
\* the worst grade); a student with exactly thresholds[g] points has grade g.
C26_RowBandsAgreeWithGradeForPoints ==
  (~is_custom(scale_type) /\ ~use_half_points /\ total_points > 0) =>
    \A p \in 0..total_points :
      \A g \in Grade :
        LET row == get_scale_data(thresholds, total_points, use_half_points)[g]
        IN (row.min2 <= 2 * p /\ 2 * p <= row.max2) => GradeOrWorst(2 * p) = g

\* C30: grade_for_points is monotone in the points for any thresholds, also
\* thresholds out of order after manual edits: for p1 <= p2, when p1 has a
\* grade then p2 has one too, equal to it or better.
C30_GradeForPointsMonotone ==
  \A p1 \in QueryPoints2, p2 \in QueryPoints2 :
    (p1 <= p2 /\ grade_for_points(thresholds, p1) # 0) =>
      /\ grade_for_points(thresholds, p2) # 0
      /\ grade_for_points(thresholds, p2) <= grade_for_points(thresholds, p1)

\* C30 witness: thresholds out of order (grade 2 above grade 1) after a manual
\* edit, where 1 point has grade 5 and 2 points have grade 1
C30_Witness ==
  /\ op.name = "IncrementThreshold"
  /\ thresholds[2] > thresholds[1]
  /\ {2, 4} \subseteq QueryPoints2
  /\ grade_for_points(thresholds, 2) = 5
  /\ grade_for_points(thresholds, 4) = 1

\* C27: Commands::parse returns Ok or Err for every input and never panics;
\* "set-points" and "export-to" given without an argument return Err.
C27_ParseNeverPanics ==
  op.name = "parse" =>
    /\ op.arg[3].result \in {"Ok", "Err"}
    /\ split_whitespace(op.arg[1]) \in {<<(<<"set-points">>)>>, <<(<<"export-to">>)>>}
         => op.arg[3].result = "Err"

\* C27, the part that holds: every input other than a known command without
\* an argument returns Ok or Err
C27_ParseReturnsWithArgument ==
  (op.name = "parse" /\ Len(split_whitespace(op.arg[1])) # 1)
    => op.arg[3].result \in {"Ok", "Err"}

====
